---- MODULE Spec2Model ----
(***************************************************************************)
(* Sales analytics pipeline (sales_pipeline.py) and the table export       *)
(* (export_tables.py), as a state machine.  The pipeline is one linear     *)
(* batch script; each section of the script is one action, and pc names    *)
(* the section that runs next.  The export is a second script that reads   *)
(* the store the pipeline wrote.                                           *)
(*                                                                         *)
(* Cells of a DataFrame are records tagged by k:                           *)
(*   "null" (None / NaN / NaT), "num" (a number), "text" (a string),       *)
(*   "date" (a date-like source value y-m-d), "ts" (a pandas Timestamp:    *)
(*   days since 1970-01-01, second of the day, nanosecond of the second).  *)
(* Money is kept in whole units; quotients are kept as exact fractions.    *)
(* All twenty logical fields of the script are carried.                    *)
(***************************************************************************)
EXTENDS Integers, Sequences, FiniteSets, TLC

VARIABLES
    source_exists,   \* DATA_PATH.exists()
    columns,         \* df.columns after normalize_cols
    df,              \* the rows of the spreadsheet, column name -> cell
    pc,              \* the section of sales_pipeline.py that runs next
    exit_code,       \* -1 while running, else the process's exit status
    col_map,         \* logical field -> actual column, or NoneCol
    work,            \* the working DataFrame (rows carry their index label)
    dim_customer,
    dim_product,
    dim_date,
    fact_sales,
    customer_metrics,
    monthly_sales,
    wi,              \* number of to_sql_safe calls made so far
    store,           \* names of the tables in the SQLite file
    skipped,         \* names of the tables to_sql_safe skipped
    epc,             \* export_tables.py: "idle", "loop", "done", "aborted"
    ei,              \* export loop: index of the table handled next
    files            \* the CSV files the export wrote

vars == <<source_exists, columns, df, pc, exit_code, col_map, work,
          dim_customer, dim_product, dim_date, fact_sales, customer_metrics,
          monthly_sales, wi, store, skipped, epc, ei, files>>

\* ------------------------------------------------------------------ bounds
MaxRowsQuality == 2
MaxRowsMoney == 1
MaxRowsMetrics == 3
MaxRowsAttributes == 2
MaxRowsSerial == 2
MaxScoreCustomers == 5

\* ------------------------------------------------------------------- cells
Null == [k |-> "null"]
Num(n) == [k |-> "num", n |-> n]
Text(s) == [k |-> "text", s |-> s]
DateCell(y, m, d) == [k |-> "date", y |-> y, m |-> m, d |-> d]
TsAt(days, sec, ns) == [k |-> "ts", days |-> days, sec |-> sec, ns |-> ns]
\* midnight of a day
Ts(days) == TsAt(days, 0, 0)

IsNull(c) == c.k = "null"

Range(s) == {s[i] : i \in DOMAIN s}

\* --------------------------------------------------------------- calendar
IsLeap(y) == (y % 4 = 0 /\ y % 100 # 0) \/ y % 400 = 0

DaysInMonth(y, m) ==
    IF m = 2 THEN (IF IsLeap(y) THEN 29 ELSE 28)
    ELSE IF m \in {4, 6, 9, 11} THEN 30 ELSE 31

ValidDate(y, m, d) == m \in 1..12 /\ d >= 1 /\ d <= DaysInMonth(y, m)

\* days since 1970-01-01 of the proleptic Gregorian date y-m-d
DaysFromCivil(y, m, d) ==
    LET yy == IF m <= 2 THEN y - 1 ELSE y
        era == yy \div 400
        yoe == yy - era * 400
        mp == IF m > 2 THEN m - 3 ELSE m + 9
        doy == (153 * mp + 2) \div 5 + d - 1
        doe == yoe * 365 + yoe \div 4 - yoe \div 100 + doy
    IN era * 146097 + doe - 719468

\* the date <<y, m, d>> of a day number
CivilFromDays(z) ==
    LET zz == z + 719468
        era == zz \div 146097
        doe == zz - era * 146097
        yoe == (doe - doe \div 1460 + doe \div 36524 - doe \div 146096) \div 365
        doy == doe - (365 * yoe + yoe \div 4 - yoe \div 100)
        mp == (5 * doy + 2) \div 153
        d == doy - (153 * mp + 2) \div 5 + 1
        m == IF mp < 10 THEN mp + 3 ELSE mp - 9
        y == yoe + era * 400 + (IF m <= 2 THEN 1 ELSE 0)
    IN <<y, m, d>>

YearOf(ts) == CivilFromDays(ts.days)[1]
MonthOf(ts) == CivilFromDays(ts.days)[2]
DayOf(ts) == CivilFromDays(ts.days)[3]

\* Timestamp.dayofweek: Monday = 0; 1970-01-01 was a Thursday
DayOfWeek(ts) == (ts.days + 3) % 7

Quarter(ts) == (MonthOf(ts) - 1) \div 3 + 1

MonthAbbr == <<"Jan", "Feb", "Mar", "Apr", "May", "Jun",
               "Jul", "Aug", "Sep", "Oct", "Nov", "Dec">>
DayNames == <<"Monday", "Tuesday", "Wednesday", "Thursday", "Friday",
              "Saturday", "Sunday">>

\* strftime('%Y%m%d'): the eight digits, most significant first
StrftimeYmd(ts) ==
    LET c == CivilFromDays(ts.days)
    IN <<c[1] \div 1000, (c[1] \div 100) % 10, (c[1] \div 10) % 10, c[1] % 10,
         c[2] \div 10, c[2] % 10, c[3] \div 10, c[3] % 10>>

\* .astype(int) of a string of decimal digits
RECURSIVE AsInt(_)
AsInt(digits) ==
    IF digits = <<>> THEN 0
    ELSE 10 * AsInt(SubSeq(digits, 1, Len(digits) - 1)) + digits[Len(digits)]

DateKey(ts) == AsInt(StrftimeYmd(ts))

\* --------------------------------------------------------- column resolver
Fields == <<"order_id", "order_date", "ship_date", "ship_mode", "customer_id",
            "customer_name", "segment", "country", "city", "state", "region",
            "postal_code", "product_id", "product_name", "category",
            "sub_category", "sales", "quantity", "discount", "profit">>

NoneCol == "<None>"

expected_candidates ==
    [order_id |-> <<"order_id", "order_id">>,
     order_date |-> <<"order_date", "orderdate", "order_date">>,
     ship_date |-> <<"ship_date", "shipdate">>,
     ship_mode |-> <<"ship_mode", "shipmode">>,
     customer_id |-> <<"customer_id", "customerid">>,
     customer_name |-> <<"customer_name", "customername", "customer">>,
     segment |-> <<"segment">>,
     country |-> <<"country">>,
     city |-> <<"city">>,
     state |-> <<"state">>,
     region |-> <<"region">>,
     postal_code |-> <<"postal_code", "postalcode", "zip", "zipcode">>,
     product_id |-> <<"product_id", "productid">>,
     product_name |-> <<"product_name", "productname", "product">>,
     category |-> <<"category">>,
     sub_category |-> <<"sub_category", "sub-category", "subcategory">>,
     sales |-> <<"sales", "sales_amount">>,
     quantity |-> <<"quantity", "qty">>,
     discount |-> <<"discount">>,
     profit |-> <<"profit">>]

\* the first candidate that is a column of df, else None
FirstFound(candidates, cols) ==
    LET hits == {i \in DOMAIN candidates : candidates[i] \in cols}
    IN IF hits = {} THEN NoneCol
       ELSE candidates[CHOOSE i \in hits : \A j \in hits : i <= j]

ResolveColumns(cols) ==
    [l \in Range(Fields) |-> FirstFound(expected_candidates[l], cols)]

\* ---------------------------------------------------------- row sanitizer
\* copy_col for one row: the mapped source value, or NaN when unmapped
copy_col(row, cmap, logical) ==
    IF cmap[logical] # NoneCol THEN row[cmap[logical]] ELSE Null

CopyRow(row, cmap, i) ==
    [idx |-> i,
     order_id |-> copy_col(row, cmap, "order_id"),
     order_date |-> copy_col(row, cmap, "order_date"),
     ship_date |-> copy_col(row, cmap, "ship_date"),
     ship_mode |-> copy_col(row, cmap, "ship_mode"),
     customer_id |-> copy_col(row, cmap, "customer_id"),
     customer_name |-> copy_col(row, cmap, "customer_name"),
     segment |-> copy_col(row, cmap, "segment"),
     country |-> copy_col(row, cmap, "country"),
     city |-> copy_col(row, cmap, "city"),
     state |-> copy_col(row, cmap, "state"),
     region |-> copy_col(row, cmap, "region"),
     postal_code |-> copy_col(row, cmap, "postal_code"),
     product_id |-> copy_col(row, cmap, "product_id"),
     product_name |-> copy_col(row, cmap, "product_name"),
     category |-> copy_col(row, cmap, "category"),
     sub_category |-> copy_col(row, cmap, "sub_category"),
     sales |-> copy_col(row, cmap, "sales"),
     quantity |-> copy_col(row, cmap, "quantity"),
     discount |-> copy_col(row, cmap, "discount"),
     profit |-> copy_col(row, cmap, "profit")]

\* the Timestamp n nanoseconds after 1970-01-01T00:00:00
EpochNs(n) ==
    LET secs == n \div 1000000000
    IN TsAt(secs \div 86400, secs % 86400, n % 1000000000)

\* the strings of the inputs that pd.to_datetime parses, with their dates
DateTextValue(s) ==
    CASE s = "2024-03-01" -> <<2024, 3, 1>>
      [] OTHER -> <<>>

\* pd.to_datetime(errors='coerce') on one cell: a date-like value or a date
\* string becomes its Timestamp, a number is read as nanoseconds since the
\* epoch, anything else becomes NaT
ToDatetime(c) ==
    IF c.k = "ts" THEN c
    ELSE IF c.k = "date" /\ ValidDate(c.y, c.m, c.d)
         THEN Ts(DaysFromCivil(c.y, c.m, c.d))
    ELSE IF c.k = "text" /\ DateTextValue(c.s) # <<>>
         THEN LET v == DateTextValue(c.s) IN Ts(DaysFromCivil(v[1], v[2], v[3]))
    ELSE IF c.k = "num" THEN EpochNs(c.n)
    ELSE Null

\* the strings of the inputs that pd.to_numeric parses, with their values
NumeralValue(s) ==
    CASE s = "3" -> <<3>>
      [] s = "15" -> <<15>>
      [] OTHER -> <<>>

\* pd.to_numeric(errors='coerce') on one cell
ToNumeric(c) ==
    IF c.k = "num" THEN c
    ELSE IF c.k = "text" /\ NumeralValue(c.s) # <<>>
         THEN Num(NumeralValue(c.s)[1])
    ELSE Null

CoerceRow(r) ==
    [r EXCEPT !.order_date = ToDatetime(@),
              !.ship_date = ToDatetime(@),
              !.sales = ToNumeric(@),
              !.quantity = ToNumeric(@),
              !.discount = ToNumeric(@),
              !.profit = ToNumeric(@)]

\* dropna(subset=[...]) keeps a row when none of the four keys is null
HasCriticalKeys(r) ==
    /\ ~IsNull(r.order_id)
    /\ ~IsNull(r.customer_id)
    /\ ~IsNull(r.product_id)
    /\ ~IsNull(r.order_date)

\* fillna(0) on a numeric cell, as a number
FillNa0(c) == IF IsNull(c) THEN 0 ELSE c.n

\* a filter that lets quantity 0 (and so a null quantity) through
PositiveQuantity_NonNegative(r) == FillNa0(r.quantity) >= 0

\* work['quantity'].fillna(0) > 0
PositiveQuantity(r) == FillNa0(r.quantity) > 0

\* ------------------------------------------------------- table utilities
\* the elements of a finite set of integers in ascending order
SortedInts(S) ==
    [i \in 1..Cardinality(S) |->
        CHOOSE x \in S : Cardinality({y \in S : y < x}) = i - 1]

\* a sequence of integers in ascending order (duplicates kept)
SortInts(s) ==
    [i \in 1..Len(s) |->
        CHOOSE v \in Range(s) :
            /\ Cardinality({j \in DOMAIN s : s[j] < v}) < i
            /\ i <= Cardinality({j \in DOMAIN s : s[j] <= v})]

\* the rows at the given positions, in position order
RowsAt(rows, idxs) ==
    LET order == SortedInts(idxs)
    IN [k \in 1..Len(order) |-> rows[order[k]]]

\* DataFrame.drop_duplicates().reset_index(drop=True): the first occurrence
\* of every distinct row, in order; nulls compare equal to nulls
DropDuplicates(rows) ==
    RowsAt(rows, {i \in DOMAIN rows : \A j \in 1..(i - 1) : rows[j] # rows[i]})

\* Series.sum(): nulls are skipped, the sum of nothing is 0
RECURSIVE SumCells(_)
SumCells(cells) ==
    IF cells = <<>> THEN 0
    ELSE FillNa0(cells[Len(cells)]) + SumCells(SubSeq(cells, 1, Len(cells) - 1))

\* Series.nunique(): the number of distinct non-null values
NUnique(cells) == Cardinality({c \in Range(cells) : ~IsNull(c)})

\* the time of day of a is earlier than that of b
TimeOfDayBefore(a, b) == a.sec < b.sec \/ (a.sec = b.sec /\ a.ns < b.ns)

\* Timestamp a <= Timestamp b
TsLeq(a, b) ==
    a.days < b.days \/ (a.days = b.days /\ ~TimeOfDayBefore(b, a))

\* (a - b).days: the whole days of the Timedelta, rounded down
DaysBetween(a, b) ==
    a.days - b.days - (IF TimeOfDayBefore(a, b) THEN 1 ELSE 0)

\* Series.min() / Series.max() of a Timestamp column: NaT when no value
MinTs(cells) ==
    LET vals == {x \in Range(cells) : ~IsNull(x)}
    IN IF vals = {} THEN Null
       ELSE CHOOSE v \in vals : \A w \in vals : TsLeq(v, w)

MaxTs(cells) ==
    LET vals == {x \in Range(cells) : ~IsNull(x)}
    IN IF vals = {} THEN Null
       ELSE CHOOSE v \in vals : \A w \in vals : TsLeq(w, v)

\* single columns of a table
OrderDates(rows) == [i \in DOMAIN rows |-> rows[i].order_date]
OrderIds(rows) == [i \in DOMAIN rows |-> rows[i].order_id]
CustomerIds(rows) == [i \in DOMAIN rows |-> rows[i].customer_id]
SalesAmounts(rows) == [i \in DOMAIN rows |-> rows[i].sales_amount]
Profits(rows) == [i \in DOMAIN rows |-> rows[i].profit]
Quantities(rows) == [i \in DOMAIN rows |-> rows[i].quantity]

\* exact quotients; float division by zero gives inf or NaN, never an error
Frac(n, d) == [k |-> "frac", num |-> n, den |-> d]
Inf(sign) == [k |-> "inf", sign |-> sign]

FloatDivide(a, b) ==
    IF b # 0 THEN Frac(a, b)
    ELSE IF a = 0 THEN Null
    ELSE Inf(IF a > 0 THEN 1 ELSE -1)

\* Python's order on the id strings of the inputs
TextOrder == <<"C1", "C2", "C3", "C4", "C5", "C6">>
TextRank(c) == CHOOSE i \in DOMAIN TextOrder : TextOrder[i] = c.s

\* the group keys of groupby('customer_id'), sorted
SortedCustomerIds(keys) ==
    [i \in 1..Cardinality(keys) |->
        CHOOSE x \in keys :
            Cardinality({y \in keys : TextRank(y) < TextRank(x)}) = i - 1]

\* ------------------------------------------------------ dimension builder
CustomerCols(r) ==
    [customer_id |-> r.customer_id, customer_name |-> r.customer_name,
     segment |-> r.segment, country |-> r.country, city |-> r.city,
     state |-> r.state, region |-> r.region, postal_code |-> r.postal_code]

BuildDimCustomer(w) == DropDuplicates([i \in DOMAIN w |-> CustomerCols(w[i])])

ProductCols(r) ==
    [product_id |-> r.product_id, product_name |-> r.product_name,
     category |-> r.category, sub_category |-> r.sub_category]

BuildDimProduct(w) == DropDuplicates([i \in DOMAIN w |-> ProductCols(w[i])])

\* pd.date_range(start, end, freq='D') for start <= end, both given: start,
\* start + 1 day, ... while not after end; the time of day of start is kept
DateRange(start, end) ==
    [i \in 1..(DaysBetween(end, start) + 1) |->
        TsAt(start.days + i - 1, start.sec, start.ns)]

DimDateRow(ts) ==
    [date |-> ts,
     date_key |-> DateKey(ts),
     day |-> DayOf(ts),
     month |-> MonthOf(ts),
     month_name |-> MonthAbbr[MonthOf(ts)],
     year |-> YearOf(ts),
     quarter |-> Quarter(ts),
     day_of_week |-> DayOfWeek(ts),
     day_name |-> DayNames[DayOfWeek(ts) + 1],
     is_weekend |-> IF DayOfWeek(ts) \in {5, 6} THEN 1 ELSE 0]

BuildDimDate(min_date, max_date) ==
    LET date_range == DateRange(min_date, max_date)
    IN [i \in DOMAIN date_range |-> DimDateRow(date_range[i])]

\* ------------------------------------------------------------ fact builder
GrossSales(r) == FillNa0(r.sales) + FillNa0(r.discount)

\* the quotient also taken when gross_sales = 0
DiscountPct_NonStrict(r) ==
    LET quotient == FloatDivide(FillNa0(r.discount), GrossSales(r))
    IN IF GrossSales(r) >= 0 THEN quotient ELSE Frac(0, 1)

\* np.where(gross_sales > 0, discount.fillna(0) / gross_sales, 0)
DiscountPct(r) ==
    LET quotient == FloatDivide(FillNa0(r.discount), GrossSales(r))
    IN IF GrossSales(r) > 0 THEN quotient ELSE Frac(0, 1)

\* the key taken from the 0-based index without the + 1
SalesId_ZeroBased(i) == i - 1

\* the surrogate key of the row at position i (1-based) of the reset index
SalesId(i) == (i - 1) + 1

FactRow(r, i) ==
    [sales_id |-> SalesId(i),
     order_id |-> r.order_id,
     order_date |-> r.order_date,
     order_date_key |-> DateKey(r.order_date),
     ship_date |-> r.ship_date,
     ship_mode |-> r.ship_mode,
     customer_id |-> r.customer_id,
     product_id |-> r.product_id,
     country |-> r.country,
     city |-> r.city,
     state |-> r.state,
     region |-> r.region,
     quantity |-> r.quantity,
     sales_amount |-> r.sales,
     gross_sales |-> GrossSales(r),
     discount |-> r.discount,
     discount_pct |-> DiscountPct(r),
     profit |-> r.profit]

BuildFact(w) == [i \in DOMAIN w |-> FactRow(w[i], i)]

\* ---------------------------------------------------------- metrics engine
\* an aggregation over the whole table instead of the group
CustomerGroup_AllRows(fact, cid) == fact

\* the fact rows groupby('customer_id') puts in the group of one customer
CustomerGroup(fact, cid) == SelectSeq(fact, LAMBDA r : r.customer_id = cid)

\* groupby('customer_id').agg(...) for one customer, then the two derived
\* columns days_since_last_order and avg_order_value
CustomerAgg(fact, cid, max_order_date) ==
    LET g == CustomerGroup(fact, cid)
        revenue == SumCells(SalesAmounts(g))
        orders == NUnique(OrderIds(g))
        last == MaxTs(OrderDates(g))
    IN [customer_id |-> cid,
        total_revenue |-> revenue,
        total_profit |-> SumCells(Profits(g)),
        total_orders |-> orders,
        total_quantity |-> SumCells(Quantities(g)),
        first_order_date |-> MinTs(OrderDates(g)),
        last_order_date |-> last,
        days_since_last_order |-> DaysBetween(max_order_date, last),
        avg_order_value |->
            IF orders > 0 THEN FloatDivide(revenue, orders) ELSE Frac(0, 1)]

\* groupby sorts the groups by key and drops null keys
BuildCustomerMetrics(fact) ==
    LET keys == {c \in Range(CustomerIds(fact)) : ~IsNull(c)}
        order == SortedCustomerIds(keys)
        max_order_date == MaxTs(OrderDates(fact))
    IN [i \in DOMAIN order |-> CustomerAgg(fact, order[i], max_order_date)]

\* four times Series.quantile(j / 4), linear interpolation between the two
\* order statistics around position (n - 1) * j / 4
Quantile4(values, j) ==
    LET sorted == SortInts(values)
        n == Len(values)
        lo == ((n - 1) * j) \div 4
        rem == ((n - 1) * j) % 4
    IN IF rem = 0 THEN 4 * sorted[lo + 1]
       ELSE 4 * sorted[lo + 1] + rem * (sorted[lo + 2] - sorted[lo + 1])

\* scorer(x) of score_from_quantiles
Scorer(x, values) ==
    IF 4 * x <= Quantile4(values, 1) THEN 1
    ELSE IF 4 * x <= Quantile4(values, 2) THEN 2
    ELSE IF 4 * x <= Quantile4(values, 3) THEN 3
    ELSE 4

score_from_quantiles(series) == [i \in DOMAIN series |-> Scorer(series[i], series)]

\* a recency score that is not inverted
RecencyScore_NotInverted(r_score) == r_score

\* 5 - r_score
RecencyScore(r_score) == 5 - r_score

\* str() of a one-digit integer
DigitStr(n) == <<"0", "1", "2", "3", "4", "5", "6", "7", "8", "9">>[n + 1]

\* R.astype(str) + F.astype(str) + M.astype(str)
RfmString(r, f, m) == DigitStr(r) \o DigitStr(f) \o DigitStr(m)

AddRfm(cm) ==
    LET r_score == score_from_quantiles(
                       [i \in DOMAIN cm |-> cm[i].days_since_last_order])
        f_score == score_from_quantiles([i \in DOMAIN cm |-> cm[i].total_orders])
        m_score == score_from_quantiles([i \in DOMAIN cm |-> cm[i].total_revenue])
    IN [i \in DOMAIN cm |->
          cm[i] @@ [R |-> RecencyScore(r_score[i]),
                    F |-> f_score[i],
                    M |-> m_score[i],
                    RFM_score |-> RfmString(RecencyScore(r_score[i]),
                                            f_score[i], m_score[i])]]

\* fact_sales['year'], fact_sales['month']
AddYearMonth(fact) ==
    [i \in DOMAIN fact |->
        fact[i] @@ [year |-> YearOf(fact[i].order_date),
                    month |-> MonthOf(fact[i].order_date)]]

\* the fact rows groupby(['year', 'month']) puts in the group of one month
MonthGroup(fact, ym) ==
    SelectSeq(fact, LAMBDA r : r.year = ym[1] /\ r.month = ym[2])

\* sort_values(['year', 'month']): by year, then by month
YearMonthBefore(a, b) == a[1] < b[1] \/ (a[1] = b[1] /\ a[2] < b[2])

SortedYearMonths(keys) ==
    [i \in 1..Cardinality(keys) |->
        CHOOSE x \in keys :
            Cardinality({y \in keys : YearMonthBefore(y, x)}) = i - 1]

MonthlyAgg(fact, ym) ==
    LET g == MonthGroup(fact, ym)
    IN [year |-> ym[1],
        month |-> ym[2],
        monthly_revenue |-> SumCells(SalesAmounts(g)),
        monthly_profit |-> SumCells(Profits(g)),
        total_orders |-> NUnique(OrderIds(g))]

\* a cumulative column that forgets the rows above
CumSum_NoCarry(values, i) == IF i = 0 THEN 0 ELSE values[i]

\* Series.cumsum(): the running sum down to row i
RECURSIVE CumSum(_, _)
CumSum(values, i) == IF i = 0 THEN 0 ELSE CumSum(values, i - 1) + values[i]

\* groupby(['year', 'month']).agg(...).reset_index().sort_values(...), then
\* the cumulative_revenue column
BuildMonthlySales(fact) ==
    LET keys == {<<fact[i].year, fact[i].month>> : i \in DOMAIN fact}
        order == SortedYearMonths(keys)
        agg == [i \in DOMAIN order |-> MonthlyAgg(fact, order[i])]
        revenue == [i \in DOMAIN agg |-> agg[i].monthly_revenue]
    IN [i \in DOMAIN agg |->
          agg[i] @@ [cumulative_revenue |-> CumSum(revenue, i)]]

\* ------------------------------------------------------------- sink, export
TABLE_PREFIX == "sa_"

\* the to_sql_safe calls, in order
WriteOrder == <<"dim_customer", "dim_product", "dim_date", "fact_sales",
                "customer_metrics", "monthly_sales">>

\* the tables list of export_tables.py
tables == <<"sa_fact_sales", "sa_dim_customer", "sa_dim_product",
            "sa_dim_date", "sa_customer_metrics", "sa_monthly_sales">>

TableRows(name) ==
    CASE name = "dim_customer" -> dim_customer
      [] name = "dim_product" -> dim_product
      [] name = "dim_date" -> dim_date
      [] name = "fact_sales" -> fact_sales
      [] name = "customer_metrics" -> customer_metrics
      [] name = "monthly_sales" -> monthly_sales

\* ------------------------------------------------------------------ inputs
\* the descriptive values every row of the inputs starts from
Attrs ==
    [ship_date |-> DateCell(2024, 3, 5), ship_mode |-> Text("Standard"),
     segment |-> Text("Consumer"), country |-> Text("US"),
     state |-> Text("NY"), region |-> Text("East"),
     postal_code |-> Num(10001), category |-> Text("Office"),
     sub_category |-> Text("Supplies")]

LRow(oid, odate, cid, cname, city, pid, pname, sales, qty, disc, profit) ==
    [order_id |-> oid, order_date |-> odate, ship_date |-> Attrs.ship_date,
     ship_mode |-> Attrs.ship_mode, customer_id |-> cid,
     customer_name |-> cname, segment |-> Attrs.segment,
     country |-> Attrs.country, city |-> city, state |-> Attrs.state,
     region |-> Attrs.region, postal_code |-> Attrs.postal_code,
     product_id |-> pid, product_name |-> pname,
     category |-> Attrs.category, sub_category |-> Attrs.sub_category,
     sales |-> sales, quantity |-> qty, discount |-> disc, profit |-> profit]

\* the normalised column names of a sheet that names every field
StdHeader ==
    {"order_id", "order_date", "ship_date", "ship_mode", "customer_id",
     "customer_name", "segment", "country", "city", "state", "region",
     "postal_code", "product_id", "product_name", "category", "sub_category",
     "sales", "quantity", "discount", "profit"}

SynonymHeader ==
    {"order_id", "orderdate", "shipdate", "shipmode", "customerid",
     "customer", "segment", "country", "city", "state", "region", "zip",
     "productid", "product", "category", "subcategory", "sales_amount",
     "qty", "discount", "profit"}

NoDiscountHeader == StdHeader \ {"discount", "profit"}

\* a sheet without the descriptive columns other than the names and the city
CoreHeader ==
    {"order_id", "order_date", "customer_id", "customer_name", "city",
     "product_id", "product_name", "sales", "quantity", "discount", "profit"}

\* the logical field whose values a source column of the inputs carries
LogicalOf(c) == CHOOSE l \in Range(Fields) : c \in Range(expected_candidates[l])

MkDf(header, lrows) ==
    [i \in DOMAIN lrows |-> [c \in header |-> lrows[i][LogicalOf(c)]]]

SeqsUpTo(S, n) == UNION {[1..k -> S] : k \in 0..n}

BaseRow ==
    LRow(Text("O1"), DateCell(2024, 1, 5), Text("C1"), Text("Ann"), Text("X"),
         Text("P1"), Text("Pen"), Num(100), Num(2), Num(10), Num(20))

\* rows with one data-quality defect each, and two clean rows
QualityRows ==
    {BaseRow,
     [BaseRow EXCEPT !.order_id = Null],
     [BaseRow EXCEPT !.customer_id = Null],
     [BaseRow EXCEPT !.product_id = Null],
     [BaseRow EXCEPT !.order_date = Null],
     [BaseRow EXCEPT !.order_date = Text("n/a")],
     [BaseRow EXCEPT !.order_date = DateCell(2024, 2, 30)],
     [BaseRow EXCEPT !.quantity = Null],
     [BaseRow EXCEPT !.quantity = Num(0)],
     [BaseRow EXCEPT !.quantity = Num(-1)],
     [BaseRow EXCEPT !.quantity = Text("abc")],
     LRow(Text("O2"), Text("2024-03-01"), Text("C2"), Text("Bob"), Text("Y"),
          Text("P2"), Text("Ink"), Num(40), Text("3"), Null, Num(5))}

\* clean rows over every pairing of sales and discount values
MoneyRows ==
    {[BaseRow EXCEPT !.sales = s, !.discount = d] :
        s \in {Null, Num(-20), Num(0), Num(100)},
        d \in {Null, Num(0), Num(20), Text("10%")}}

\* rows of three customers over two years and several months; the last one
\* has quantity 0
MetricsRows ==
    {LRow(Text("O1"), DateCell(2023, 12, 31), Text("C1"), Text("Ann"), Text("X"),
          Text("P1"), Text("Pen"), Num(100), Num(2), Num(10), Num(20)),
     LRow(Text("O1"), DateCell(2024, 1, 1), Text("C1"), Text("Ann"), Text("X"),
          Text("P2"), Text("Ink"), Num(-50), Num(1), Num(0), Num(-5)),
     LRow(Text("O2"), DateCell(2024, 2, 29), Text("C1"), Text("Ann"), Text("Y"),
          Text("P1"), Text("Pen"), Null, Num(1), Null, Null),
     LRow(Text("O3"), DateCell(2024, 1, 1), Text("C2"), Text("Bob"), Text("Y"),
          Text("P1"), Text("Pen"), Num(40), Num(3), Num(5), Num(8)),
     LRow(Text("O4"), DateCell(2024, 3, 1), Text("C2"), Text("Bob"), Text("Y"),
          Text("P2"), Text("Ink"), Num(-150), Num(1), Num(0), Num(-30)),
     LRow(Text("O5"), DateCell(2023, 12, 31), Text("C3"), Text("Cy"), Text("X"),
          Text("P2"), Text("Ink"), Num(30), Num(4), Num(0), Num(6)),
     LRow(Text("O6"), DateCell(2024, 2, 29), Text("C3"), Text("Cy"), Text("X"),
          Text("P1"), Text("Pen"), Num(100), Num(1), Num(20), Num(10)),
     LRow(Text("O7"), DateCell(2024, 1, 5), Text("C2"), Text("Bob"), Text("Y"),
          Text("P1"), Text("Pen"), Num(500), Num(0), Num(0), Num(90))}

\* rows of one order line that differ in one descriptive value
AttributeRows ==
    {BaseRow,
     [BaseRow EXCEPT !.segment = Text("Corporate")],
     [BaseRow EXCEPT !.category = Text("Art")],
     [BaseRow EXCEPT !.postal_code = Null, !.sub_category = Null],
     [BaseRow EXCEPT !.ship_date = Text("n/a"), !.ship_mode = Null]}

\* rows of a sheet whose date columns hold numbers throughout
SerialBase ==
    [BaseRow EXCEPT !.order_date = Num(45296), !.ship_date = Num(45300)]

SerialRows ==
    {SerialBase,
     [SerialBase EXCEPT !.order_id = Text("O2"), !.order_date = Num(-5),
                        !.customer_id = Text("C2"),
                        !.customer_name = Text("Bob")],
     [SerialBase EXCEPT !.order_id = Text("O3"), !.order_date = Num(2000000000),
                        !.ship_date = Null]}

\* sheets of up to MaxScoreCustomers customers: the customer at position k
\* has ScoreOrders[..] orders of ScoreSales[..] each, the last of them on day
\* ScoreLastDays[..] of January 2024 and the earlier ones on the days before;
\* a, b and c rotate the three lists against the customers
ScoreOrders == <<1, 1, 2, 3, 4, 4>>
ScoreLastDays == <<5, 8, 12, 15, 25, 31>>
ScoreSales == <<100, -50, 40, 10, 25, 0>>
ScoreOrderNames == <<"a", "b", "c", "d">>

\* position k of n moved on by a, wrapping round
Rot(k, a, n) == ((k - 1 + a) % n) + 1

\* the value at position i of a list, wrapping round
Wrap(list, i) == list[((i - 1) % Len(list)) + 1]

\* the order lines of the customer at position k of n
CustomerBlock(k, n, a, b, c) ==
    LET id == Wrap(TextOrder, k)
        last == Wrap(ScoreLastDays, Rot(k, b, n))
        amount == Wrap(ScoreSales, Rot(k, c, n))
    IN [j \in 1..Wrap(ScoreOrders, Rot(k, a, n)) |->
           LRow(Text(id \o "-" \o ScoreOrderNames[j]),
                DateCell(2024, 1, last - (j - 1)), Text(id), Text(id),
                Text("X"), Text("P1"), Text("Pen"), Num(amount), Num(1),
                Num(0), Num(1))]

\* the order lines of the customers at positions 1..k of n, in that order
RECURSIVE ScoreSheet(_, _, _, _, _)
ScoreSheet(k, n, a, b, c) ==
    IF k = 0 THEN <<>>
    ELSE ScoreSheet(k - 1, n, a, b, c) \o CustomerBlock(k, n, a, b, c)

\* the sheets of n customers, one for every rotation
ScoreSheetsOf(n) ==
    {ScoreSheet(n, n, a, b, c) : a \in 0..(n - 1), b \in 0..(n - 1),
                                 c \in 0..(n - 1)}

ScoreSheets == UNION {ScoreSheetsOf(n) : n \in 1..MaxScoreCustomers}

Inputs ==
    {[header |-> StdHeader, rows |-> r] :
        r \in SeqsUpTo(QualityRows, MaxRowsQuality)}
    \cup {[header |-> StdHeader, rows |-> r] : r \in ScoreSheets}
    \cup {[header |-> h, rows |-> r] :
        h \in {StdHeader, CoreHeader},
        r \in SeqsUpTo(AttributeRows, MaxRowsAttributes)}
    \cup {[header |-> StdHeader, rows |-> r] :
        r \in SeqsUpTo(SerialRows, MaxRowsSerial)}
    \cup {[header |-> h, rows |-> r] :
        h \in {StdHeader, SynonymHeader, NoDiscountHeader},
        r \in SeqsUpTo(MoneyRows, MaxRowsMoney)}
    \cup {[header |-> StdHeader, rows |-> r] :
        r \in SeqsUpTo(MetricsRows, MaxRowsMetrics)}

\* ----------------------------------------------------------------- actions
Init ==
    /\ \/ /\ source_exists = FALSE
          /\ columns = {}
          /\ df = <<>>
       \/ /\ source_exists = TRUE
          /\ \E inp \in Inputs :
                /\ columns = inp.header
                /\ df = MkDf(inp.header, inp.rows)
    /\ pc = "start"
    /\ exit_code = -1
    /\ col_map = <<>>
    /\ work = <<>>
    /\ dim_customer = <<>>
    /\ dim_product = <<>>
    /\ dim_date = <<>>
    /\ fact_sales = <<>>
    /\ customer_metrics = <<>>
    /\ monthly_sales = <<>>
    /\ wi = 0
    /\ store = {}
    /\ skipped = {}
    /\ epc = "idle"
    /\ ei = 1
    /\ files = {}

inputVars == <<source_exists, columns, df>>
tableVars == <<dim_customer, dim_product, dim_date, fact_sales,
               customer_metrics, monthly_sales>>
sinkVars == <<wi, store, skipped>>
exportVars == <<epc, ei, files>>

\* if not DATA_PATH.exists(): sys.exit(1)
CheckSource ==
    /\ pc = "start"
    /\ IF source_exists
       THEN pc' = "resolve" /\ exit_code' = exit_code
       ELSE pc' = "exit1" /\ exit_code' = 1
    /\ UNCHANGED <<inputVars, col_map, work, tableVars, sinkVars, exportVars>>

\* read_excel, normalize_cols, and the logical -> actual column map
ResolveColumnMap ==
    /\ pc = "resolve"
    /\ col_map' = ResolveColumns(columns)
    /\ pc' = "copy"
    /\ UNCHANGED <<inputVars, exit_code, work, tableVars, sinkVars, exportVars>>

\* the copy_col calls
CopyColumns ==
    /\ pc = "copy"
    /\ work' = [i \in DOMAIN df |-> CopyRow(df[i], col_map, i - 1)]
    /\ pc' = "coerce"
    /\ UNCHANGED <<inputVars, exit_code, col_map, tableVars, sinkVars, exportVars>>

\* to_datetime on the dates, to_numeric on the four numeric columns
Coerce ==
    /\ pc = "coerce"
    /\ work' = [i \in DOMAIN work |-> CoerceRow(work[i])]
    /\ pc' = "dropna"
    /\ UNCHANGED <<inputVars, exit_code, col_map, tableVars, sinkVars, exportVars>>

DropMissingKeys ==
    /\ pc = "dropna"
    /\ work' = SelectSeq(work, HasCriticalKeys)
    /\ pc' = "quantity"
    /\ UNCHANGED <<inputVars, exit_code, col_map, tableVars, sinkVars, exportVars>>

QuantityFilter ==
    /\ pc = "quantity"
    /\ work' = SelectSeq(work, PositiveQuantity)
    /\ pc' = "dim_customer"
    /\ UNCHANGED <<inputVars, exit_code, col_map, tableVars, sinkVars, exportVars>>

DimCustomer ==
    /\ pc = "dim_customer"
    /\ dim_customer' = BuildDimCustomer(work)
    /\ pc' = "dim_product"
    /\ UNCHANGED <<inputVars, exit_code, col_map, work, dim_product, dim_date,
                   fact_sales, customer_metrics, monthly_sales, sinkVars,
                   exportVars>>

DimProduct ==
    /\ pc = "dim_product"
    /\ dim_product' = BuildDimProduct(work)
    /\ pc' = "dim_date"
    /\ UNCHANGED <<inputVars, exit_code, col_map, work, dim_customer, dim_date,
                   fact_sales, customer_metrics, monthly_sales, sinkVars,
                   exportVars>>

\* min/max of order_date, pd.date_range, and the calendar columns;
\* date_range raises ValueError when start or end is NaT, which nothing
\* catches: the interpreter prints the traceback and exits with status 1
DimDate ==
    /\ pc = "dim_date"
    /\ LET min_date == MinTs(OrderDates(work))
           max_date == MaxTs(OrderDates(work))
       IN IF IsNull(min_date) \/ IsNull(max_date)
          THEN /\ pc' = "crashed"
               /\ exit_code' = 1
               /\ dim_date' = dim_date
          ELSE /\ dim_date' = BuildDimDate(min_date, max_date)
               /\ pc' = "fact"
               /\ exit_code' = exit_code
    /\ UNCHANGED <<inputVars, col_map, work, dim_customer, dim_product,
                   fact_sales, customer_metrics, monthly_sales, sinkVars,
                   exportVars>>

FactSales ==
    /\ pc = "fact"
    /\ fact_sales' = BuildFact(work)
    /\ pc' = "customer_metrics"
    /\ UNCHANGED <<inputVars, exit_code, col_map, work, dim_customer,
                   dim_product, dim_date, customer_metrics, monthly_sales,
                   sinkVars, exportVars>>

CustomerMetrics ==
    /\ pc = "customer_metrics"
    /\ customer_metrics' = BuildCustomerMetrics(fact_sales)
    /\ pc' = "rfm"
    /\ UNCHANGED <<inputVars, exit_code, col_map, work, dim_customer,
                   dim_product, dim_date, fact_sales, monthly_sales, sinkVars,
                   exportVars>>

RfmScoring ==
    /\ pc = "rfm"
    /\ customer_metrics' = AddRfm(customer_metrics)
    /\ pc' = "monthly"
    /\ UNCHANGED <<inputVars, exit_code, col_map, work, dim_customer,
                   dim_product, dim_date, fact_sales, monthly_sales, sinkVars,
                   exportVars>>

\* order_date and sales_amount are always columns of fact_sales (copy_col
\* creates every column), so the else branch of line 285 is never taken
MonthlySales ==
    /\ pc = "monthly"
    /\ fact_sales' = AddYearMonth(fact_sales)
    /\ monthly_sales' = BuildMonthlySales(AddYearMonth(fact_sales))
    /\ pc' = "write"
    /\ UNCHANGED <<inputVars, exit_code, col_map, work, dim_customer,
                   dim_product, dim_date, customer_metrics, sinkVars,
                   exportVars>>

\* one to_sql_safe call
WriteTable ==
    /\ pc = "write"
    /\ wi < Len(WriteOrder)
    /\ LET name == WriteOrder[wi + 1]
       IN IF TableRows(name) # <<>>
          THEN store' = store \cup {TABLE_PREFIX \o name} /\ skipped' = skipped
          ELSE skipped' = skipped \cup {TABLE_PREFIX \o name} /\ store' = store
    /\ wi' = wi + 1
    /\ UNCHANGED <<inputVars, pc, exit_code, col_map, work, tableVars, exportVars>>

Finish ==
    /\ pc = "write"
    /\ wi = Len(WriteOrder)
    /\ pc' = "done"
    /\ exit_code' = 0
    /\ UNCHANGED <<inputVars, col_map, work, tableVars, sinkVars, exportVars>>

PipelineEnded == pc \in {"done", "exit1", "crashed"}

\* export_tables.py is started on the store a pipeline run left behind
ExportStart ==
    /\ PipelineEnded
    /\ epc = "idle"
    /\ epc' = "loop"
    /\ UNCHANGED <<inputVars, pc, exit_code, col_map, work, tableVars, sinkVars,
                   ei, files>>

\* one iteration of the loop: read_sql_query raises on a table the store
\* does not have, and nothing catches it
ExportTable ==
    /\ epc = "loop"
    /\ ei <= Len(tables)
    /\ IF tables[ei] \in store
       THEN /\ files' = files \cup {tables[ei] \o ".csv"}
            /\ ei' = ei + 1
            /\ epc' = epc
       ELSE /\ epc' = "aborted"
            /\ UNCHANGED <<ei, files>>
    /\ UNCHANGED <<inputVars, pc, exit_code, col_map, work, tableVars, sinkVars>>

ExportFinish ==
    /\ epc = "loop"
    /\ ei > Len(tables)
    /\ epc' = "done"
    /\ UNCHANGED <<inputVars, pc, exit_code, col_map, work, tableVars, sinkVars,
                   ei, files>>

Next ==
    \/ CheckSource
    \/ ResolveColumnMap
    \/ CopyColumns
    \/ Coerce
    \/ DropMissingKeys
    \/ QuantityFilter
    \/ DimCustomer
    \/ DimProduct
    \/ DimDate
    \/ FactSales
    \/ CustomerMetrics
    \/ RfmScoring
    \/ MonthlySales
    \/ WriteTable
    \/ Finish
    \/ ExportStart
    \/ ExportTable
    \/ ExportFinish

Spec == Init /\ [][Next]_vars

\* ------------------------------------------------------------ properties
Sanitized ==
    pc \in {"dim_customer", "dim_product", "dim_date", "crashed", "fact",
            "customer_metrics", "rfm", "monthly", "write", "done"}
DimCustomerBuilt ==
    pc \in {"dim_product", "dim_date", "crashed", "fact", "customer_metrics",
            "rfm", "monthly", "write", "done"}
DimDateHandled ==
    pc \in {"crashed", "fact", "customer_metrics", "rfm", "monthly", "write",
            "done"}
FactBuilt == pc \in {"customer_metrics", "rfm", "monthly", "write", "done"}
MetricsBuilt == pc \in {"rfm", "monthly", "write", "done"}
RfmDone == pc \in {"monthly", "write", "done"}
MonthlyBuilt == pc \in {"write", "done"}

\* the source cell of a logical field of input row i (1-based), null when
\* no source column carries the field
SourceCell(i, logical) ==
    IF \E c \in columns : c \in Range(expected_candidates[logical])
    THEN df[i][CHOOSE c \in columns : c \in Range(expected_candidates[logical])]
    ELSE Null

\* C1: after the Row Sanitizer every working row has non-null order_id,
\* customer_id, product_id and order_date, and a quantity > 0, whatever the
\* input rows were.
C1_SanitizedRows ==
    Sanitized =>
        \A i \in DOMAIN work :
            /\ work[i].order_id.k # "null"
            /\ work[i].customer_id.k # "null"
            /\ work[i].product_id.k # "null"
            /\ work[i].order_date.k = "ts"
            /\ work[i].quantity.k = "num"
            /\ work[i].quantity.n > 0

\* two input rows, one of them with an unparsable date or a quantity <= 0,
\* and exactly one of the two kept
C1_Witness ==
    /\ Sanitized
    /\ Len(work) = 1
    /\ Len(df) = 2
    /\ \E i \in DOMAIN df :
          \/ (SourceCell(i, "order_date").k = "text"
              /\ ToDatetime(SourceCell(i, "order_date")) = Null)
          \/ (SourceCell(i, "quantity").k = "num"
              /\ SourceCell(i, "quantity").n <= 0)

\* the order dates of the working rows, and the earliest and latest of them
WorkDates == {work[i].order_date : i \in DOMAIN work}
MinWorkDate == CHOOSE t \in WorkDates : \A u \in WorkDates : TsLeq(t, u)
MaxWorkDate == CHOOSE t \in WorkDates : \A u \in WorkDates : TsLeq(u, t)

\* YYYYMMDD of a day number
Ymd(day) ==
    LET c == CivilFromDays(day) IN c[1] * 10000 + c[2] * 100 + c[3]

\* C2: with working rows, the Date Dimension has (max - min) days + 1 rows,
\* one per calendar day of the inclusive range, date_key = YYYYMMDD strictly
\* increasing; without working rows it is empty and the run does not raise
\* but goes on to the later stages.
C2_DateDimension ==
    DimDateHandled =>
        IF work # <<>>
        THEN /\ Len(dim_date) = DaysBetween(MaxWorkDate, MinWorkDate) + 1
             /\ \A i \in DOMAIN dim_date :
                    dim_date[i].date_key = Ymd(MinWorkDate.days + i - 1)
             /\ \A i \in 1..(Len(dim_date) - 1) :
                    dim_date[i].date_key < dim_date[i + 1].date_key
             /\ \A d \in MinWorkDate.days..MaxWorkDate.days :
                    \E i \in DOMAIN dim_date : dim_date[i].date_key = Ymd(d)
        ELSE /\ dim_date = <<>>
             /\ pc # "crashed"

\* C3 as claimed: cumulative_revenue is the running sum of monthly_revenue
\* over the rows sorted by (year, month), and it never decreases.
C3_CumulativeNonDecreasing ==
    MonthlyBuilt =>
        /\ \A i \in DOMAIN monthly_sales :
              monthly_sales[i].cumulative_revenue =
                  (IF i = 1 THEN 0 ELSE monthly_sales[i - 1].cumulative_revenue)
                  + monthly_sales[i].monthly_revenue
        /\ \A i \in 1..(Len(monthly_sales) - 1) :
              monthly_sales[i].cumulative_revenue
                  <= monthly_sales[i + 1].cumulative_revenue

\* C3 amended: the rows are in strictly ascending (year, month) order,
\* cumulative_revenue is the running sum of monthly_revenue, and it does not
\* decrease at a row whose monthly_revenue is >= 0.
C3_CumulativeRunningSum ==
    MonthlyBuilt =>
        /\ \A i \in 1..(Len(monthly_sales) - 1) :
              \/ monthly_sales[i].year < monthly_sales[i + 1].year
              \/ /\ monthly_sales[i].year = monthly_sales[i + 1].year
                 /\ monthly_sales[i].month < monthly_sales[i + 1].month
        /\ \A i \in DOMAIN monthly_sales :
              monthly_sales[i].cumulative_revenue =
                  (IF i = 1 THEN 0 ELSE monthly_sales[i - 1].cumulative_revenue)
                  + monthly_sales[i].monthly_revenue
        /\ \A i \in 1..(Len(monthly_sales) - 1) :
              monthly_sales[i + 1].monthly_revenue >= 0 =>
                  monthly_sales[i].cumulative_revenue
                      <= monthly_sales[i + 1].cumulative_revenue

\* three months over two years, the input out of month order, one month
\* with negative revenue after which the cumulative revenue is lower
C3_Witness ==
    /\ MonthlyBuilt
    /\ Len(monthly_sales) = 3
    /\ monthly_sales[1].year < monthly_sales[2].year
    /\ monthly_sales[1].month > monthly_sales[2].month
    /\ fact_sales[1].year > fact_sales[2].year
    /\ monthly_sales[2].monthly_revenue < 0
    /\ monthly_sales[2].cumulative_revenue < monthly_sales[1].cumulative_revenue
    /\ monthly_sales[3].monthly_revenue > 0

\* C4: the Customer Dimension has exactly one row per distinct customer_id
\* of the working rows: none missing, none in two rows.
C4_OneRowPerCustomer ==
    DimCustomerBuilt =>
        /\ {dim_customer[i].customer_id : i \in DOMAIN dim_customer}
              = {work[i].customer_id : i \in DOMAIN work}
        /\ \A i, j \in DOMAIN dim_customer :
              i # j => dim_customer[i].customer_id # dim_customer[j].customer_id

\* C5: the export never aborts on a missing table: it skips it, and the files
\* written are those of the tables of the store handled so far.
C5_ExportToleratesMissing ==
    /\ epc # "aborted"
    /\ epc \in {"loop", "done"} =>
          files = {tables[i] \o ".csv" :
                      i \in {j \in 1..(ei - 1) : tables[j] \in store}}
    /\ epc = "done" => ei = Len(tables) + 1

\* C6: a missing source ends the run at once with a non-zero status and
\* nothing else done; and nothing but the missing source stops the run
\* before the Sink Writer has handled all six tables.
C6_OnlyMissingSourceStops ==
    /\ (~source_exists /\ pc # "start") =>
          /\ pc = "exit1"
          /\ exit_code = 1
          /\ col_map = <<>>
          /\ work = <<>>
          /\ tableVars = <<<<>>, <<>>, <<>>, <<>>, <<>>, <<>>>>
          /\ wi = 0
          /\ store = {}
    /\ (pc \in {"exit1", "crashed"} /\ wi < Len(WriteOrder)) => ~source_exists
    /\ (source_exists /\ pc = "done") => wi = Len(WriteOrder)

\* a numeric cell with null counted as 0
NullAsZero(c) == IF c.k = "num" THEN c.n ELSE 0

\* C7: for every fact row, with null sales_amount or discount counted as 0,
\* gross_sales = sales_amount + discount; discount_pct = discount / gross_sales
\* when gross_sales > 0 and 0 otherwise, never inf or NaN; and the stored
\* discount is the working row's discount, null included.
C7_DiscountPct ==
    FactBuilt =>
        \A i \in DOMAIN fact_sales :
            LET f == fact_sales[i]
                sales0 == NullAsZero(work[i].sales)
                discount0 == NullAsZero(work[i].discount)
            IN /\ f.gross_sales = sales0 + discount0
               /\ f.discount_pct.k = "frac"
               /\ f.discount_pct.den # 0
               /\ f.gross_sales > 0 =>
                     f.discount_pct.num * f.gross_sales
                         = discount0 * f.discount_pct.den
               /\ f.gross_sales <= 0 => f.discount_pct.num = 0
               /\ f.discount = work[i].discount
               /\ f.sales_amount = work[i].sales

\* a fact row whose sales_amount and discount cancel (gross_sales = 0 with a
\* non-zero discount): the quotient would be a division by zero
C7_Witness ==
    /\ FactBuilt
    /\ \E i \in DOMAIN fact_sales :
          /\ fact_sales[i].gross_sales = 0
          /\ fact_sales[i].discount = Num(20)
          /\ fact_sales[i].discount_pct = Frac(0, 1)

\* input row i (1-based) passes the Row Sanitizer
Survives(i) ==
    /\ SourceCell(i, "order_id").k # "null"
    /\ SourceCell(i, "customer_id").k # "null"
    /\ SourceCell(i, "product_id").k # "null"
    /\ ToDatetime(SourceCell(i, "order_date")).k = "ts"
    /\ NullAsZero(ToNumeric(SourceCell(i, "quantity"))) > 0

\* C8: the fact table has one row per working row, the working rows are the
\* surviving input rows in input order, and the k-th of them has sales_id k,
\* so the sales_id values are exactly 1..N.
C8_SalesIdInInputOrder ==
    FactBuilt =>
        /\ Len(fact_sales) = Len(work)
        /\ {fact_sales[k].sales_id : k \in DOMAIN fact_sales} = 1..Len(work)
        /\ {work[k].idx + 1 : k \in DOMAIN work}
              = {i \in DOMAIN df : Survives(i)}
        /\ \A k \in 1..(Len(work) - 1) : work[k].idx < work[k + 1].idx
        /\ \A k \in DOMAIN fact_sales :
              /\ fact_sales[k].sales_id = k
              /\ fact_sales[k].order_id = SourceCell(work[k].idx + 1, "order_id")
              /\ fact_sales[k].customer_id
                    = SourceCell(work[k].idx + 1, "customer_id")
              /\ fact_sales[k].product_id
                    = SourceCell(work[k].idx + 1, "product_id")
              /\ fact_sales[k].order_date
                    = ToDatetime(SourceCell(work[k].idx + 1, "order_date"))

\* three input rows, the middle one dropped: the third input row is the
\* second fact row
C8_Witness ==
    /\ FactBuilt
    /\ Len(df) = 3
    /\ Len(fact_sales) = 2
    /\ work[1].idx = 0
    /\ work[2].idx = 2
    /\ fact_sales[2].sales_id = 2
    /\ fact_sales[1].order_id # fact_sales[2].order_id

\* the sum of sales_amount over the first n fact rows of customer cid
RECURSIVE RevenueOfCustomer(_, _)
RevenueOfCustomer(cid, n) ==
    IF n = 0 THEN 0
    ELSE RevenueOfCustomer(cid, n - 1)
         + (IF fact_sales[n].customer_id = cid
            THEN NullAsZero(fact_sales[n].sales_amount) ELSE 0)

\* the sum of sales_amount over the first n fact rows
RECURSIVE RevenueOfAll(_)
RevenueOfAll(n) ==
    IF n = 0 THEN 0
    ELSE RevenueOfAll(n - 1) + NullAsZero(fact_sales[n].sales_amount)

\* the sum of total_revenue over the first n Customer Metrics rows
RECURSIVE TotalRevenueUpTo(_)
TotalRevenueUpTo(n) ==
    IF n = 0 THEN 0
    ELSE TotalRevenueUpTo(n - 1) + customer_metrics[n].total_revenue

\* C9: Customer Metrics has exactly one row per distinct customer_id of the
\* fact rows; a customer's total_revenue is the sum of sales_amount over
\* exactly its own fact rows (a null sales_amount adds nothing); the
\* total_revenue of all customers sums to the sales_amount of all fact rows.
C9_TotalRevenue ==
    MetricsBuilt =>
        /\ {customer_metrics[i].customer_id : i \in DOMAIN customer_metrics}
              = {fact_sales[i].customer_id : i \in DOMAIN fact_sales}
        /\ \A i, j \in DOMAIN customer_metrics :
              i # j =>
                  customer_metrics[i].customer_id
                      # customer_metrics[j].customer_id
        /\ \A i \in DOMAIN customer_metrics :
              customer_metrics[i].total_revenue
                  = RevenueOfCustomer(customer_metrics[i].customer_id,
                                      Len(fact_sales))
        /\ TotalRevenueUpTo(Len(customer_metrics)) = RevenueOfAll(Len(fact_sales))

\* two customers, one of them with two fact rows, one of which has a null
\* sales_amount
C9_Witness ==
    /\ MetricsBuilt
    /\ Len(customer_metrics) = 2
    /\ Len(fact_sales) = 3
    /\ \E i, j \in DOMAIN fact_sales :
          /\ i # j
          /\ fact_sales[i].customer_id = fact_sales[j].customer_id
          /\ fact_sales[i].sales_amount = Null
          /\ fact_sales[j].sales_amount.k = "num"
    /\ customer_metrics[1].total_revenue # customer_metrics[2].total_revenue

\* four times the percentile j/4 of a column, as the weighted mean of the two
\* order statistics around position (n - 1) * j / 4
Percentile4(values, j) ==
    LET sorted == SortInts(values)
        pos4 == (Len(values) - 1) * j
        lo == pos4 \div 4
        hi == IF pos4 % 4 = 0 THEN lo ELSE lo + 1
    IN (4 - (pos4 % 4)) * sorted[lo + 1] + (pos4 % 4) * sorted[hi + 1]

\* quartile(v): 1 if v <= p25, 2 if v <= p50, 3 if v <= p75, else 4
Quartile(v, values) ==
    1 + Cardinality({j \in 1..3 : 4 * v > Percentile4(values, j)})

RfmDigits == <<"1", "2", "3", "4">>

\* the latest order date of the fact rows
MaxFactDate ==
    CHOOSE t \in {fact_sales[i].order_date : i \in DOMAIN fact_sales} :
        \A i \in DOMAIN fact_sales : TsLeq(fact_sales[i].order_date, t)

\* a Timestamp moved by n whole days
PlusDays(t, n) == [t EXCEPT !.days = @ + n]

\* C10: days_since_last_order is the whole days from the customer's last
\* order to the latest order date; R = 5 - quartile(days_since_last_order),
\* F = quartile(total_orders),
\* M = quartile(total_revenue), each in 1..4, RFM_score the digits R, F, M in
\* that order; of two customers the one with fewer days since the last order
\* never has the lower R, and a customer whose last order is on the global
\* max order date has days_since_last_order = 0 and R = 4.
C10_RfmScores ==
    RfmDone =>
        LET cm == customer_metrics
            days == [i \in DOMAIN cm |-> cm[i].days_since_last_order]
            orders == [i \in DOMAIN cm |-> cm[i].total_orders]
            revenue == [i \in DOMAIN cm |-> cm[i].total_revenue]
        IN /\ \A i \in DOMAIN cm :
                 /\ cm[i].R = 5 - Quartile(days[i], days)
                 /\ cm[i].F = Quartile(orders[i], orders)
                 /\ cm[i].M = Quartile(revenue[i], revenue)
                 /\ cm[i].R \in 1..4 /\ cm[i].F \in 1..4 /\ cm[i].M \in 1..4
                 /\ cm[i].RFM_score
                       = RfmDigits[cm[i].R] \o RfmDigits[cm[i].F]
                           \o RfmDigits[cm[i].M]
                 /\ TsLeq(PlusDays(cm[i].last_order_date, days[i]),
                          MaxFactDate)
                 /\ ~TsLeq(PlusDays(cm[i].last_order_date, days[i] + 1),
                           MaxFactDate)
                 /\ cm[i].last_order_date.days = MaxFactDate.days
                       => days[i] = 0 /\ cm[i].R = 4
           /\ \A i, j \in DOMAIN cm : days[i] < days[j] => cm[i].R >= cm[j].R

\* five customers or more, every score 1..4 taken by R, by F and by M, a
\* customer with no days since the last order, and two customers with
\* different recencies and the same R
C10_Witness ==
    /\ RfmDone
    /\ Len(customer_metrics) >= 5
    /\ \A v \in 1..4 :
          /\ \E i \in DOMAIN customer_metrics : customer_metrics[i].R = v
          /\ \E i \in DOMAIN customer_metrics : customer_metrics[i].F = v
          /\ \E i \in DOMAIN customer_metrics : customer_metrics[i].M = v
    /\ \E i, j, k \in DOMAIN customer_metrics :
          /\ customer_metrics[i].days_since_last_order = 0
          /\ customer_metrics[i].R = 4
          /\ customer_metrics[j].days_since_last_order > 0
          /\ customer_metrics[j].R = 2
          /\ customer_metrics[k].R = 1
          /\ customer_metrics[k].days_since_last_order
                > customer_metrics[j].days_since_last_order
          /\ customer_metrics[i].RFM_score # customer_metrics[k].RFM_score
    /\ \E i, j \in DOMAIN customer_metrics :
          /\ customer_metrics[i].days_since_last_order
                < customer_metrics[j].days_since_last_order
          /\ customer_metrics[i].R = customer_metrics[j].R

====
